---- MODULE Spec2Model ----
(***************************************************************************)
(* Model of src/annotation_app.py: the Streamlit annotation tool.  Each    *)
(* browser session owns a st.session_state dictionary; every click reruns  *)
(* the script from the top, so one action is one click together with the   *)
(* script run that handles it.  The annotations file of the annotator and  *)
(* the sample catalog are shared by all sessions.                          *)
(***************************************************************************)
EXTENDS Integers, Sequences, FiniteSets, TLC

\* ------------------------------------------------------------------ bounds
MaxSamples == 2   \* catalog ids are drawn from 1..MaxSamples
MaxPrior == 2     \* records in the annotations file when the model starts
MaxClock == 3     \* datetime.utcnow() readings the model follows

\* --------------------------------------------------------------- constants
Sessions == {1, 2}
NoAnnotator == ""
TheAnnotator == "A1"
NA == "N/A"

AnomalyPresenceOptions == {"yes", "no", "unsure"}
TypeCorrectnessOptions == {"correct", "partial", "incorrect"}
\* slider positions, written as the JSON text of the number
ScoreOptions == {"1", "2", "3", "4", "5"}

\* What the annotator can have set in the four widgets when a button is
\* pressed: the defaults, and a setting that differs from them in every widget.
FormInputs ==
    { [anomaly_presence |-> "yes", type_correctness |-> "correct",
       localization_score |-> "3", grounded_reasoning |-> "3"],
      [anomaly_presence |-> "no", type_correctness |-> "incorrect",
       localization_score |-> "1", grounded_reasoning |-> "5"] }

\* ----------------------------------------------------------------- helpers
Min(a, b) == IF a < b THEN a ELSE b

Range(f) == {f[i] : i \in DOMAIN f}

\* Python truthiness of sample.get("anomaly_label", 0)
Truthy(anomaly) == anomaly # 0

\* --- the annotations buffer: a Python dict, which keeps insertion order ---
\* It is a sequence of annotation records with pairwise distinct sample_id.
BufKeys(buf) == {buf[i].sample_id : i \in DOMAIN buf}

BufIndex(buf, id) == CHOOSE i \in DOMAIN buf : buf[i].sample_id = id

BufGet(buf, id) == buf[BufIndex(buf, id)]

\* BufPut on a list instead of a dict: every save adds an entry
BufPutAppend(buf, id, ann) == Append(buf, ann)

\* buf[id] = ann : replaces the value in place, or appends a new key
BufPut(buf, id, ann) ==
    IF id \in BufKeys(buf)
    THEN [buf EXCEPT ![BufIndex(buf, id)] = ann]
    ELSE Append(buf, ann)

\* BufValues that loses the last value
BufValuesShort(buf) == SubSeq(buf, 1, Len(buf) - 1)

\* list(buf.values())
BufValues(buf) == buf

\* BufferOf that starts the session with an empty buffer
BufferOfNothing(anns) == <<>>

\* {a["sample_id"]: a for a in existing_annotations}
RECURSIVE BufferOf(_)
BufferOf(anns) ==
    IF anns = <<>> THEN <<>>
    ELSE LET n == Len(anns)
             rest == BufferOf(SubSeq(anns, 1, n - 1))
         IN  BufPut(rest, anns[n].sample_id, anns[n])

\* {a["sample_id"] for a in existing_annotations}
AnnotatedIds(anns) == {anns[i].sample_id : i \in DOMAIN anns}

\* Remaining with the filter left out
RemainingUnfiltered(smps, ids) == smps

\* [s for s in samples if s["id"] not in annotated_ids]
RECURSIVE Remaining(_, _)
Remaining(smps, ids) ==
    IF smps = <<>> THEN <<>>
    ELSE LET n == Len(smps)
             rest == Remaining(SubSeq(smps, 1, n - 1), ids)
         IN  IF smps[n].id \notin ids THEN Append(rest, smps[n]) ELSE rest

\* random.shuffle: every rearrangement of the list is a possible outcome
Shuffles(seq) ==
    LET n == Len(seq)
        Perms == {p \in [1..n -> 1..n] : \A i, j \in 1..n : p[i] = p[j] => i = j}
    IN  {[i \in 1..n |-> seq[p[i]]] : p \in Perms}

\* ------------------------------------------------------ the annotations file
\* exists: the file is there; recs: the records written into it so far;
\* complete: the JSON text was written to its end.
NoFile == [exists |-> FALSE, complete |-> TRUE, recs |-> <<>>]

FileOf(anns) == [exists |-> TRUE, complete |-> TRUE, recs |-> anns]

\* json.load succeeds on a file that json.dump wrote to its end
Loadable(file) == ~file.exists \/ file.complete

load_annotations(file) == IF ~file.exists THEN <<>> ELSE file.recs

\* save_all_annotations that appends to the file instead of replacing it
save_all_annotationsAppending(file, anns) ==
    {[result |-> "ok", file |-> FileOf(file.recs \o anns)]}

\* The outcomes of save_all_annotations(annotator_id, annotations) on a file:
\*   "ok"      the text is written to its end;
\*   "refused" makedirs or open raises: the file is as it was;
\*   "cut"     open(path, "w") has emptied the file and the write raises
\*             after k records.
save_all_annotations(file, anns) ==
    {[result |-> "ok", file |-> FileOf(anns)]}
    \cup {[result |-> "refused", file |-> file]}
    \cup {[result |-> "cut",
           file |-> [exists |-> TRUE, complete |-> FALSE,
                     recs |-> SubSeq(anns, 1, k)]] : k \in 0..Len(anns)}

\* ------------------------------------------------------ the annotation form
\* The two radios and the two sliders are created without key=, so Streamlit
\* identifies each by its label, its options and its index=/value= argument.
\* The labels and options never change: a widget of the new page is the
\* widget of the page before exactly when it was on that page with the same
\* initial value, and then it keeps the value it had there; otherwise it
\* starts at its initial value.
WidgetNames ==
    {"anomaly_presence", "type_correctness", "localization_score",
     "grounded_reasoning"}

HiddenWidget == [shown |-> FALSE, initial |-> "", value |-> ""]

\* a page without the form
NoForm == [w \in WidgetNames |-> HiddenWidget]

\* the second arguments of existing.get(...)
FieldDefault ==
    [anomaly_presence |-> "yes", type_correctness |-> "correct",
     localization_score |-> "3", grounded_reasoning |-> "3"]

\* samples[idx], with Python's indexing from the end for a negative idx
PyIndex(seq, idx) == IF idx < 0 THEN seq[Len(seq) + idx + 1] ELSE seq[idx + 1]

\* existing = annotations_buffer.get(sample["id"], {}); existing.get(w, default)
WidgetInitial(buf, sample, w) ==
    IF sample.id \in BufKeys(buf) THEN BufGet(buf, sample.id)[w]
                                  ELSE FieldDefault[w]

\* ... if anomaly else "N/A": the widget is not created
WidgetShown(sample, w) ==
    w \in {"type_correctness", "localization_score"} => Truthy(sample.anomaly_label)

\* the value of a widget on a new page, prev being the widget of that name
\* on the page before
WidgetValue(prev, initial) ==
    IF prev.shown /\ prev.initial = initial THEN prev.value ELSE initial

\* the form for a sample, after a page whose form was prev
RenderForm(prev, buf, sample) ==
    [w \in WidgetNames |->
        IF WidgetShown(sample, w)
        THEN [shown |-> TRUE,
              initial |-> WidgetInitial(buf, sample, w),
              value |-> WidgetValue(prev[w], WidgetInitial(buf, sample, w))]
        ELSE HiddenWidget]

\* the form after the annotator has set its widgets to input
Typed(f, input) ==
    [w \in WidgetNames |->
        IF f[w].shown THEN [f[w] EXCEPT !.value = input[w]] ELSE f[w]]

\* --------------------------------------------------------------- the state
VARIABLES
    samples,            \* data/samples.json: the catalog
    store,              \* annotations/<annotator>.json
    now,                \* the clock read by datetime.utcnow()
    annotator_id,       \* st.session_state.annotator_id, per session
    initialized,        \* st.session_state.initialized
    sample_order,       \* st.session_state.sample_order: the queue
    total_samples,      \* st.session_state.total_samples
    current_idx,        \* st.session_state.current_idx: the cursor
    annotations_buffer, \* st.session_state.annotations_buffer
    review_mode,        \* st.session_state.review_mode
    existing_annotations, \* what load_annotations returned at initialization
    form                \* the widgets of the annotation form on the page

vars == <<samples, store, now, annotator_id, initialized, sample_order,
          total_samples, current_idx, annotations_buffer, review_mode,
          existing_annotations, form>>

sessionVars == <<annotator_id, initialized, sample_order, total_samples,
                 current_idx, annotations_buffer, review_mode,
                 existing_annotations>>

\* ------------------------------------------------------------ initial state
\* A catalog record: samples with an odd id show an anomaly, the others do
\* not (S1 anomalous, S2 not, S3 anomalous, ...).
SampleRecord(id) == [id |-> id, anomaly_label |-> id % 2]

\* Catalogs: any selection of the samples, no duplicate ids.
Catalogs ==
    UNION { { c \in [1..n -> {SampleRecord(id) : id \in 1..MaxSamples}] :
                \A i, j \in 1..n : i < j => c[i].id < c[j].id }
            : n \in 0..MaxSamples }

\* A record an earlier session can have left in the file.  Id 0 is a sample
\* that is no longer in the catalog.
PriorRecord(id) ==
    [sample_id |-> id, annotator_id |-> TheAnnotator,
     anomaly_presence |-> "unsure", type_correctness |-> "partial",
     localization_score |-> "2", grounded_reasoning |-> "4", timestamp |-> 0]

PriorLists ==
    UNION { [1..n -> {PriorRecord(id) : id \in 0..MaxSamples}]
            : n \in 0..MaxPrior }

PriorFiles == {NoFile} \cup {FileOf(a) : a \in PriorLists}

\* A session that is at the annotator selection gate, or has been cleared.
Init ==
    /\ samples \in Catalogs
    /\ store \in PriorFiles
    /\ now = 1
    /\ annotator_id = [s \in Sessions |-> IF s = 1 THEN TheAnnotator ELSE NoAnnotator]
    /\ initialized = [s \in Sessions |-> FALSE]
    /\ sample_order = [s \in Sessions |-> <<>>]
    /\ total_samples = [s \in Sessions |-> 0]
    /\ current_idx = [s \in Sessions |-> 0]
    /\ annotations_buffer = [s \in Sessions |-> <<>>]
    /\ review_mode = [s \in Sessions |-> FALSE]
    /\ existing_annotations = [s \in Sessions |-> <<>>]
    /\ form = [s \in Sessions |-> NoForm]

\* ----------------------------------------------------------------- actions
\* The mode the specification speaks of, read off the session state.
mode(s) ==
    IF annotator_id[s] = NoAnnotator THEN "Committed"
    ELSE IF ~initialized[s] THEN "Unbuilt"
    ELSE IF review_mode[s] THEN "Reviewing"
    ELSE "Annotating"

\* idx = min(st.session_state.current_idx, len(samples) - 1)
ClampedIdx(s) == Min(current_idx[s], Len(sample_order[s]) - 1)

\* The annotation form is on the page: annotation mode, non-empty queue.
FormShown(s) ==
    /\ annotator_id[s] # NoAnnotator
    /\ initialized[s]
    /\ ~review_mode[s]
    /\ sample_order[s] # <<>>

\* The page of session s at the end of the script run: the form of the
\* current sample in annotation mode, no form otherwise.
Rerender(s, prev) ==
    form' = [form EXCEPT ![s] =
                IF FormShown(s)'
                THEN RenderForm(prev, annotations_buffer'[s],
                                PyIndex(sample_order'[s], ClampedIdx(s)'))
                ELSE NoForm]

\* InitialReviewMode as the specification words it
InitialReviewModeByQueue(queue) == queue = <<>>

\* st.session_state.review_mode = False
InitialReviewMode(queue) == FALSE

\* NeedsInit that is true on every script run
NeedsInitAlways(s) == TRUE

\* if "initialized" not in st.session_state
NeedsInit(s) == ~initialized[s]

\* Session initialization: the first script run after the gate.
SessionInit(s) ==
    /\ annotator_id[s] # NoAnnotator
    /\ NeedsInit(s)
    /\ Loadable(store)
    /\ LET existing == load_annotations(store)
           remaining == Remaining(samples, AnnotatedIds(existing))
       IN  /\ \E shuffled \in Shuffles(remaining) :
                 sample_order' = [sample_order EXCEPT ![s] = shuffled]
           /\ total_samples' = [total_samples EXCEPT ![s] = Len(samples)]
           /\ current_idx' = [current_idx EXCEPT ![s] = 0]
           /\ annotations_buffer' =
                 [annotations_buffer EXCEPT ![s] = BufferOf(existing)]
           /\ review_mode' = [review_mode EXCEPT ![s] = InitialReviewMode(remaining)]
           /\ initialized' = [initialized EXCEPT ![s] = TRUE]
           /\ existing_annotations' = [existing_annotations EXCEPT ![s] = existing]
    /\ UNCHANGED <<samples, store, now, annotator_id>>
    /\ Rerender(s, form[s])

\* type_correctness decided by the annotator's answer, not by the label
type_correctnessByAnswer(anomaly, input) ==
    IF input.anomaly_presence = "yes" THEN input.type_correctness ELSE NA

\* The radio and the slider are only shown for a sample with an anomaly.
type_correctness(anomaly, input) ==
    IF Truthy(anomaly) THEN input.type_correctness ELSE NA

localization_score(anomaly, input) ==
    IF Truthy(anomaly) THEN input.localization_score ELSE NA

\* The dictionary written by "Save and continue".
NewAnnotation(sample, annotator, input, ts) ==
    [sample_id |-> sample.id,
     annotator_id |-> annotator,
     anomaly_presence |-> input.anomaly_presence,
     type_correctness |-> type_correctness(sample.anomaly_label, input),
     localization_score |-> localization_score(sample.anomaly_label, input),
     grounded_reasoning |-> input.grounded_reasoning,
     timestamp |-> ts]

\* HasNext that sends every save into review
HasNextNever(idx, n) == FALSE

\* HasNext off by one
HasNextOffByOne(idx, n) == idx < n

\* if idx < len(samples) - 1: advance, else: enter review
HasNext(idx, n) == idx < n - 1

\* BackTarget without the idx > 0 test
BackTargetUnguarded(idx) == idx - 1

\* "Back": the index the cursor is left at
BackTarget(idx) == IF idx > 0 THEN idx - 1 ELSE idx

\* ReviewButtonShown without the comparison of the lengths
ReviewButtonShownAnyTime(s) ==
    /\ annotator_id[s] # NoAnnotator
    /\ initialized[s]
    /\ ~review_mode[s]

\* "Review all annotations" is on the page
ReviewButtonShown(s) ==
    /\ annotator_id[s] # NoAnnotator
    /\ initialized[s]
    /\ Len(annotations_buffer[s]) = Len(sample_order[s])
    /\ ~review_mode[s]

ReviewAll(s) ==
    /\ ReviewButtonShown(s)
    /\ review_mode' = [review_mode EXCEPT ![s] = TRUE]
    /\ UNCHANGED <<samples, store, now, annotator_id, initialized, sample_order,
                   total_samples, current_idx, annotations_buffer,
                   existing_annotations>>
    /\ Rerender(s, form[s])

\* ReviewIndices over the catalog instead of the queue
ReviewIndicesOfCatalog(s) == 0..(total_samples[s] - 1)

\* for i, sample in enumerate(st.session_state.sample_order): the indices
\* that have a button in the review listing
ReviewIndices(s) == 0..(Len(sample_order[s]) - 1)

\* A click on entry i of the review listing.
SelectForEdit(s, i) ==
    /\ annotator_id[s] # NoAnnotator
    /\ initialized[s]
    /\ review_mode[s]
    /\ i \in ReviewIndices(s)
    /\ current_idx' = [current_idx EXCEPT ![s] = i]
    /\ review_mode' = [review_mode EXCEPT ![s] = FALSE]
    /\ UNCHANGED <<samples, store, now, annotator_id, initialized, sample_order,
                   total_samples, annotations_buffer, existing_annotations>>
    /\ Rerender(s, form[s])

\* Raises with the exception swallowed
RaisesSwallowed(outcome) == FALSE

\* An exception of save_all_annotations leaves the handler before
\* st.session_state.clear().
Raises(outcome) == outcome.result # "ok"

\* st.session_state.clear()
Cleared(s) ==
    /\ annotator_id' = [annotator_id EXCEPT ![s] = NoAnnotator]
    /\ initialized' = [initialized EXCEPT ![s] = FALSE]
    /\ sample_order' = [sample_order EXCEPT ![s] = <<>>]
    /\ total_samples' = [total_samples EXCEPT ![s] = 0]
    /\ current_idx' = [current_idx EXCEPT ![s] = 0]
    /\ annotations_buffer' = [annotations_buffer EXCEPT ![s] = <<>>]
    /\ review_mode' = [review_mode EXCEPT ![s] = FALSE]
    /\ existing_annotations' = [existing_annotations EXCEPT ![s] = <<>>]

FinalSubmit(s) ==
    /\ annotator_id[s] # NoAnnotator
    /\ initialized[s]
    /\ review_mode[s]
    /\ \E outcome \in save_all_annotations(store, BufValues(annotations_buffer[s])) :
          /\ store' = outcome.file
          /\ IF Raises(outcome) THEN UNCHANGED sessionVars ELSE Cleared(s)
    /\ UNCHANGED <<samples, now>>
    /\ Rerender(s, form[s])

Back(s) ==
    /\ FormShown(s)
    /\ current_idx' = [current_idx EXCEPT ![s] = BackTarget(ClampedIdx(s))]
    /\ UNCHANGED <<samples, store, now, annotator_id, initialized, sample_order,
                   total_samples, annotations_buffer, review_mode,
                   existing_annotations>>
    /\ Rerender(s, form[s])

\* "Save and continue", without what it does to the files.
SaveInMemory(s, input) ==
    /\ FormShown(s)
    /\ now <= MaxClock
    /\ LET idx == ClampedIdx(s)
           sample == PyIndex(sample_order[s], idx)
           ann == NewAnnotation(sample, annotator_id[s], input, now)
       IN  /\ annotations_buffer' =
                 [annotations_buffer EXCEPT ![s] = BufPut(@, sample.id, ann)]
           /\ IF HasNext(idx, Len(sample_order[s]))
              THEN /\ current_idx' = [current_idx EXCEPT ![s] = idx + 1]
                   /\ UNCHANGED review_mode
              ELSE /\ current_idx' = [current_idx EXCEPT ![s] = idx]
                   /\ review_mode' = [review_mode EXCEPT ![s] = TRUE]
    /\ now' = now + 1
    /\ UNCHANGED <<annotator_id, initialized, sample_order, total_samples,
                   existing_annotations>>
    /\ Rerender(s, Typed(form[s], input))

\* Save that also writes the buffer to the file
SaveWriteThrough(s, input) ==
    /\ SaveInMemory(s, input)
    /\ store' = FileOf(BufValues(annotations_buffer'[s]))
    /\ UNCHANGED samples

Save(s, input) ==
    /\ SaveInMemory(s, input)
    /\ UNCHANGED <<samples, store>>

Next ==
    \E s \in Sessions :
        \/ SessionInit(s)
        \/ ReviewAll(s)
        \/ \E i \in 0..(MaxSamples - 1) : SelectForEdit(s, i)
        \/ FinalSubmit(s)
        \/ Back(s)
        \/ \E input \in FormInputs : Save(s, input)

Spec == Init /\ [][Next]_vars

\* Two browser sessions of the same annotator, both past the gate, on the
\* catalog [S1, S2]; the file is absent or holds one annotation of a sample
\* that has left the catalog.
InitTwoSessions ==
    /\ samples = <<SampleRecord(1), SampleRecord(2)>>
    /\ store \in {NoFile, FileOf(<<PriorRecord(0)>>)}
    /\ now = 1
    /\ annotator_id = [s \in Sessions |-> TheAnnotator]
    /\ initialized = [s \in Sessions |-> FALSE]
    /\ sample_order = [s \in Sessions |-> <<>>]
    /\ total_samples = [s \in Sessions |-> 0]
    /\ current_idx = [s \in Sessions |-> 0]
    /\ annotations_buffer = [s \in Sessions |-> <<>>]
    /\ review_mode = [s \in Sessions |-> FALSE]
    /\ existing_annotations = [s \in Sessions |-> <<>>]
    /\ form = [s \in Sessions |-> NoForm]

SpecTwoSessions == InitTwoSessions /\ [][Next]_vars

\* A "Final submit" whose write succeeds.
CommitOk(s) == FinalSubmit(s) /\ annotator_id'[s] = NoAnnotator

\* The annotator who only presses "Save and continue" and, in review,
\* "Final submit": no back, no selection, no jump into review.
NextKeepSaving ==
    \E s \in Sessions :
        \/ SessionInit(s)
        \/ \E input \in FormInputs : Save(s, input)
        \/ FinalSubmit(s)

\* The script run after the gate happens, the annotator keeps pressing the
\* button on the page, and a write succeeds in the end.
SpecKeepSaving ==
    /\ Init
    /\ [][NextKeepSaving]_vars
    /\ \A s \in Sessions :
          /\ WF_vars(SessionInit(s))
          /\ WF_vars(\E input \in FormInputs : Save(s, input))
          /\ WF_vars(CommitOk(s))

\* ------------------------------------------------------------------ claims
CatalogIds == {samples[i].id : i \in DOMAIN samples}

Built(s) == annotator_id[s] # NoAnnotator /\ initialized[s]

\* how often x occurs in seq
Occurrences(seq, x) == Cardinality({i \in DOMAIN seq : seq[i] = x})

DistinctCatalogIds(anns) ==
    /\ AnnotatedIds(anns) \subseteq CatalogIds
    /\ Cardinality(AnnotatedIds(anns)) = Len(anns)

\* C1: the queue of a built session holds exactly the catalog samples whose
\* id is not a sample_id of the annotations loaded at initialization, each
\* once, and nothing else; when those sample_ids are distinct catalog ids,
\* |queue| + |A| = |C|.
C1_QueueIsCatalogMinusAnswered ==
    \A s \in Sessions :
        Built(s) =>
            LET A == existing_annotations[s]
                queue == sample_order[s]
            IN  /\ \A i \in DOMAIN samples :
                      Occurrences(queue, samples[i]) =
                          IF samples[i].id \in AnnotatedIds(A) THEN 0 ELSE 1
                /\ Range(queue) \subseteq Range(samples)
                /\ DistinctCatalogIds(A) => Len(queue) + Len(A) = Len(samples)
                /\ total_samples[s] = Len(samples)

\* A resumed session: some catalog samples answered before, some left.
C1_Witness ==
    \E s \in Sessions :
        /\ Built(s)
        /\ existing_annotations[s] # <<>>
        /\ DistinctCatalogIds(existing_annotations[s])
        /\ Len(sample_order[s]) >= 1
        /\ Len(samples) > Len(sample_order[s])

\* C2: a "Save and continue" step writes buffer[queue[cursor].id], replacing
\* an earlier entry for that id without changing |buffer|, changes no other
\* entry, and then either moves the cursor one on (mode still Annotating) or,
\* on the last queue item, leaves the cursor and enters Reviewing.
C2_SaveStep ==
    [][\A s \in Sessions : \A input \in FormInputs :
          Save(s, input) =>
              LET queue == sample_order[s]
                  cursor == current_idx[s]
                  id == queue[cursor + 1].id
                  old == annotations_buffer[s]
                  new == annotations_buffer'[s]
              IN  /\ mode(s) = "Annotating"
                  /\ BufKeys(new) = BufKeys(old) \cup {id}
                  /\ Len(new) = Cardinality(BufKeys(new))
                  /\ id \in BufKeys(old) => Len(new) = Len(old)
                  /\ id \notin BufKeys(old) => Len(new) = Len(old) + 1
                  /\ BufGet(new, id).sample_id = id
                  /\ BufGet(new, id).timestamp = now
                  /\ BufGet(new, id).anomaly_presence = input.anomaly_presence
                  /\ BufGet(new, id).grounded_reasoning = input.grounded_reasoning
                  /\ \A k \in BufKeys(old) \ {id} : BufGet(new, k) = BufGet(old, k)
                  /\ IF cursor < Len(queue) - 1
                     THEN current_idx'[s] = cursor + 1 /\ mode(s)' = "Annotating"
                     ELSE current_idx'[s] = cursor /\ mode(s)' = "Reviewing"
                  /\ sample_order'[s] = queue
      ]_vars

\* A sample saved a second time: its entry is newer than that of the sample
\* saved after it, and the last save entered review.
C2_Witness ==
    \E s \in Sessions :
        /\ mode(s) = "Reviewing"
        /\ Len(sample_order[s]) >= 2
        /\ LET b == annotations_buffer[s]
               first == sample_order[s][1].id
               last == sample_order[s][Len(sample_order[s])].id
           IN  /\ {first, last} \subseteq BufKeys(b)
               /\ BufIndex(b, first) < BufIndex(b, last)
               /\ BufGet(b, first).timestamp > 1
               /\ current_idx[s] = Len(sample_order[s]) - 1

\* a step in which session s pressed "Final submit"
CommitAttempt(s) ==
    /\ mode(s) = "Reviewing"
    /\ now' = now
    /\ \/ mode(s)' = "Committed"
       \/ UNCHANGED sessionVars

\* C3: only a commit changes the annotations file: every step that changes
\* it is a "Final submit" of a session in review, so save, back, select for
\* edit and the jump into review leave the file as it was at the build.
C3_OnlyCommitWrites ==
    [][store' # store => \E s \in Sessions : CommitAttempt(s)]_vars

\* Answers saved in memory while the file still is what the build loaded.
C3_Witness ==
    \E s \in Sessions :
        /\ Built(s)
        /\ \E i \in DOMAIN annotations_buffer[s] :
               annotations_buffer[s][i].timestamp > 0
        /\ Loadable(store)
        /\ load_annotations(store) = existing_annotations[s]
        /\ current_idx[s] > 0

\* C4: a commit that succeeds leaves in the file exactly the values of the
\* buffer, one record per buffer key and nothing else, so that a load
\* returns them; queue samples without a buffer entry are not in the file.
C4_CommitRoundTrip ==
    [][\A s \in Sessions :
          (mode(s) = "Reviewing" /\ mode(s)' = "Committed") =>
              LET b == annotations_buffer[s]
                  loaded == load_annotations(store')
              IN  /\ store'.exists /\ Loadable(store')
                  /\ Len(loaded) = Cardinality(BufKeys(b))
                  /\ AnnotatedIds(loaded) = BufKeys(b)
                  /\ \A k \in BufKeys(b) :
                        \E i \in DOMAIN loaded : loaded[i] = BufGet(b, k)
                  /\ \A i \in DOMAIN sample_order[s] :
                        sample_order[s][i].id \notin BufKeys(b) =>
                            sample_order[s][i].id \notin AnnotatedIds(loaded)
      ]_vars

\* A committed file that holds an answer of the session next to an older one.
C4_Witness ==
    /\ \E s \in Sessions : mode(s) = "Committed"
    /\ store.exists /\ store.complete
    /\ \E i, j \in DOMAIN store.recs :
           store.recs[i].timestamp > 1 /\ store.recs[j].timestamp = 0

\* C5: when the write of a commit fails, the session is left as it was, in
\* review with the same buffer, queue and cursor, so the commit can be
\* pressed again; a session is only cleared by a step whose write succeeded.
C5_FailedCommitKeepsReview ==
    [][\A s \in Sessions :
          /\ (CommitAttempt(s) /\ store' # store /\ ~Loadable(store')) =>
                 /\ mode(s)' = "Reviewing"
                 /\ annotations_buffer'[s] = annotations_buffer[s]
                 /\ sample_order'[s] = sample_order[s]
                 /\ current_idx'[s] = current_idx[s]
                 /\ total_samples'[s] = total_samples[s]
          /\ (mode(s) # "Committed" /\ mode(s)' = "Committed") =>
                 /\ mode(s) = "Reviewing"
                 /\ store'.exists /\ Loadable(store')
                 /\ store'.recs = BufValues(annotations_buffer[s])
      ]_vars

\* A session still in review, with its answers, after a write that failed.
C5_Witness ==
    \E s \in Sessions :
        /\ mode(s) = "Reviewing"
        /\ ~Loadable(store)
        /\ Len(annotations_buffer[s]) > Len(store.recs)

\* C6: the annotations file always holds a complete set of records: a write
\* replaces the whole set in one step, so the file is never left empty,
\* truncated or partly written, and a load never meets a malformed file.
C6_StoreAlwaysComplete ==
    /\ store.complete
    /\ Loadable(store)

\* the catalog sample with the given id
CatalogSample(id) == samples[CHOOSE i \in DOMAIN samples : samples[i].id = id]

ConditionalFieldLaw(ann, anomaly) ==
    IF Truthy(anomaly)
    THEN /\ ann.type_correctness \in TypeCorrectnessOptions
         /\ ann.localization_score \in ScoreOptions
    ELSE /\ ann.type_correctness = NA
         /\ ann.localization_score = NA

\* C7: every annotation that a save wrote, in a buffer or in the file, has
\* type_correctness and localization_score "N/A" when the anomaly_label of
\* its sample is falsy, and a radio option and a slider position when it is
\* truthy, whatever the annotator answered.
C7_ConditionalFields ==
    /\ \A s \in Sessions : \A i \in DOMAIN annotations_buffer[s] :
          LET ann == annotations_buffer[s][i]
          IN  ann.timestamp > 0 =>
                  /\ ann.sample_id \in CatalogIds
                  /\ ConditionalFieldLaw(ann, CatalogSample(ann.sample_id).anomaly_label)
    /\ \A i \in DOMAIN store.recs :
          LET ann == store.recs[i]
          IN  ann.timestamp > 0 =>
                  /\ ann.sample_id \in CatalogIds
                  /\ ConditionalFieldLaw(ann, CatalogSample(ann.sample_id).anomaly_label)

\* Both cases saved and committed: a sample without anomaly answered "yes"
\* and a sample with an anomaly answered "no".
C7_Witness ==
    /\ store.exists /\ store.complete
    /\ \E i, j \in DOMAIN store.recs :
          LET a == store.recs[i]
              b == store.recs[j]
          IN  /\ a.timestamp > 0 /\ b.timestamp > 0
              /\ ~Truthy(CatalogSample(a.sample_id).anomaly_label)
              /\ a.anomaly_presence = "yes" /\ a.type_correctness = NA
              /\ Truthy(CatalogSample(b.sample_id).anomaly_label)
              /\ b.anomaly_presence = "no" /\ b.type_correctness = "incorrect"

\* completed, as the progress bar computes it
completed(s) == Len(annotations_buffer[s])

\* C8: while a session lasts, completed never decreases, and when the
\* sample_ids loaded at the build are all catalog ids, completed is at most
\* total_samples, the size of the catalog.
C8_ProgressMonotone ==
    /\ [](\A s \in Sessions :
            (Built(s) /\ AnnotatedIds(existing_annotations[s]) \subseteq CatalogIds)
                => (completed(s) <= total_samples[s] /\ total_samples[s] = Len(samples)))
    /\ [][\A s \in Sessions :
            (Built(s) /\ Built(s)') => completed(s)' >= completed(s)]_vars

\* Progress complete in a resumed session: an old answer and a new one, the
\* new one saved twice.
C8_Witness ==
    \E s \in Sessions :
        /\ Built(s)
        /\ existing_annotations[s] # <<>>
        /\ AnnotatedIds(existing_annotations[s]) \subseteq CatalogIds
        /\ completed(s) = total_samples[s]
        /\ sample_order[s] # <<>>
        /\ now > 2

C10_InitialModeAsStated ==
    [][\A s \in Sessions :
          SessionInit(s) =>
              /\ current_idx'[s] = 0
              /\ mode(s)' = IF sample_order'[s] # <<>> THEN "Annotating"
                                                      ELSE "Reviewing"
      ]_vars

\* C10, amended: right after the build the cursor is 0 and the mode is
\* Annotating, for an empty queue as well; with an empty queue neither the
\* form nor "Final submit" is on the page, and "Review all annotations" is
\* only when the buffer is empty too.
C10_InitialModeAnnotating ==
    [][\A s \in Sessions :
          SessionInit(s) =>
              /\ current_idx'[s] = 0
              /\ mode(s)' = "Annotating"
              /\ sample_order'[s] = <<>> =>
                    /\ ~FormShown(s)'
                    /\ ~review_mode'[s]
                    /\ ReviewButtonShown(s)' <=> annotations_buffer'[s] = <<>>
      ]_vars

\* A session resumed on a fully annotated catalog: not in review.
C10_Witness ==
    \E s \in Sessions :
        /\ Built(s)
        /\ samples # <<>>
        /\ sample_order[s] = <<>>
        /\ annotations_buffer[s] # <<>>
        /\ mode(s) = "Annotating"
        /\ store = FileOf(existing_annotations[s])

\* the session_state of one session
SessionState(s) ==
    <<annotator_id[s], initialized[s], sample_order[s], total_samples[s],
      current_idx[s], annotations_buffer[s], review_mode[s]>>

SessionModes == {"Annotating", "Reviewing", "Committed"}

\* every sample of the queue has an entry in the buffer
AllQueueAnswered(s) ==
    \A i \in DOMAIN sample_order[s] :
        sample_order[s][i].id \in BufKeys(annotations_buffer[s])

\* the three mode changes the specification lists
StatedModeChange(s) ==
    \/ /\ mode(s) = "Annotating" /\ mode(s)' = "Reviewing"
       /\ \E input \in FormInputs : Save(s, input)
       /\ current_idx[s] = Len(sample_order[s]) - 1
    \/ /\ mode(s) = "Reviewing" /\ mode(s)' = "Annotating"
       /\ \E i \in ReviewIndices(s) : SelectForEdit(s, i)
    \/ /\ mode(s) = "Reviewing" /\ mode(s)' = "Committed"
       /\ FinalSubmit(s)

\* C11 as stated: the mode only changes from Annotating to Reviewing by a
\* save on the last queue item, from Reviewing to Annotating by a selection,
\* and from Reviewing to Committed by a commit; Committed is terminal.
C11_TransitionsAsStated ==
    [][\A s \in Sessions :
          /\ (mode(s) \in SessionModes /\ mode(s)' # mode(s)) => StatedModeChange(s)
          /\ mode(s) = "Committed" => SessionState(s)' = SessionState(s)
      ]_vars

\* C11, amended: as stated, with one more way from Annotating to Reviewing:
\* the button "Review all annotations", which is on the page whenever
\* |buffer| = |queue|, wherever the cursor is.
C11_Transitions ==
    [][\A s \in Sessions :
          /\ (mode(s) \in SessionModes /\ mode(s)' # mode(s)) =>
                \/ StatedModeChange(s)
                \/ /\ mode(s) = "Annotating" /\ mode(s)' = "Reviewing"
                   /\ ReviewAll(s)
                   /\ Len(annotations_buffer[s]) = Len(sample_order[s])
                   /\ SessionState(s)' =
                         <<annotator_id[s], initialized[s], sample_order[s],
                           total_samples[s], current_idx[s],
                           annotations_buffer[s], TRUE>>
          /\ mode(s) = "Committed" => SessionState(s)' = SessionState(s)
      ]_vars

\* In review with the cursor not on the last queue item: entered by the
\* button, not by a save.
C11_Witness ==
    \E s \in Sessions :
        /\ mode(s) = "Reviewing"
        /\ Len(sample_order[s]) >= 2
        /\ current_idx[s] = 0

\* C14: in review, every sample of the queue has an entry in the buffer.
C14_ReviewOnlyWhenComplete ==
    \A s \in Sessions : mode(s) = "Reviewing" => AllQueueAnswered(s)

\* C15: a selection in the review listing is a selection of a queue position
\* i, 0 <= i < len(queue); it sets the cursor to i and the mode to
\* Annotating and leaves buffer, queue and file alone.  The listing offers
\* one index per queue item and no other.
C15_SelectForEdit ==
    [][\A s \in Sessions :
          /\ mode(s) = "Reviewing" =>
                /\ ReviewIndices(s) = {i - 1 : i \in DOMAIN sample_order[s]}
                /\ \A i \in (0 - 1)..(MaxSamples + 1) :
                      (ENABLED SelectForEdit(s, i)) <=>
                          (0 <= i /\ i < Len(sample_order[s]))
          /\ \A i \in (0 - 1)..(MaxSamples + 1) :
                SelectForEdit(s, i) =>
                    /\ mode(s) = "Reviewing"
                    /\ 0 <= i /\ i < Len(sample_order[s])
                    /\ current_idx'[s] = i
                    /\ mode(s)' = "Annotating"
                    /\ annotations_buffer' = annotations_buffer
                    /\ sample_order' = sample_order
                    /\ total_samples' = total_samples
                    /\ store' = store
      ]_vars

\* Back in the form after a selection of the first entry of a finished queue.
C15_Witness ==
    \E s \in Sessions :
        /\ mode(s) = "Annotating"
        /\ existing_annotations[s] = <<>>
        /\ Len(sample_order[s]) >= 2
        /\ AllQueueAnswered(s)
        /\ current_idx[s] = 0

\* C17: the cursor of a session with a non-empty queue is a position of the
\* queue: 0 <= cursor <= len(queue) - 1.
C17_CursorInQueue ==
    \A s \in Sessions :
        (Built(s) /\ sample_order[s] # <<>>) =>
            /\ 0 <= current_idx[s]
            /\ current_idx[s] <= Len(sample_order[s]) - 1
            /\ ClampedIdx(s) = current_idx[s]

\* The form on the last sample of the queue, none saved twice.
C17_Witness ==
    \E s \in Sessions :
        /\ mode(s) = "Annotating"
        /\ Len(sample_order[s]) >= 2
        /\ current_idx[s] = Len(sample_order[s]) - 1
        /\ ~AllQueueAnswered(s)

\* C18: the annotations that were in the file at the build, when their
\* sample_ids are distinct, are in the file unchanged after a commit that
\* succeeds; none of their samples is in the queue.
C18_PriorAnnotationsKept ==
    /\ [](\A s \in Sessions :
            Built(s) =>
                \A i \in DOMAIN sample_order[s] :
                    sample_order[s][i].id \notin AnnotatedIds(existing_annotations[s]))
    /\ [][\A s \in Sessions :
            LET A == existing_annotations[s]
            IN  (/\ mode(s) = "Reviewing" /\ mode(s)' = "Committed"
                 /\ Cardinality(AnnotatedIds(A)) = Len(A)) =>
                    \A i \in DOMAIN A :
                        \E j \in DOMAIN store'.recs : store'.recs[j] = A[i]
       ]_vars

\* A committed file with an annotation of an earlier session for a catalog
\* sample, next to a new one.
C18_Witness ==
    /\ \E s \in Sessions : mode(s) = "Committed"
    /\ store.exists /\ store.complete
    /\ \E i, j \in DOMAIN store.recs :
           /\ store.recs[i].timestamp = 0
           /\ store.recs[i].sample_id \in CatalogIds
           /\ store.recs[j].timestamp > 0

\* C20: in a session built from an empty annotations file, every state in
\* review has a buffer entry for each queue sample, and "Review all
\* annotations" is on the page exactly when the session is not in review and
\* every queue sample has been saved.
C20_FreshReviewComplete ==
    \A s \in Sessions :
        (Built(s) /\ existing_annotations[s] = <<>>) =>
            /\ mode(s) = "Reviewing" => AllQueueAnswered(s)
            /\ ReviewButtonShown(s) <=> (~review_mode[s] /\ AllQueueAnswered(s))
            /\ BufKeys(annotations_buffer[s]) \subseteq
                  {sample_order[s][i].id : i \in DOMAIN sample_order[s]}

\* A fresh session with the button on the page above the form.
C20_Witness ==
    \E s \in Sessions :
        /\ Built(s)
        /\ existing_annotations[s] = <<>>
        /\ ReviewButtonShown(s)
        /\ FormShown(s)
        /\ current_idx[s] = Len(sample_order[s]) - 1

\* C19: an annotator who only presses save reaches review from a non-empty
\* queue after exactly len(queue) - cursor saves (the cursor counts the saves
\* made, and review is entered by the save number len(queue)), and from
\* review a commit whose write succeeds reaches Committed.
C19_SavesReachCommit ==
    /\ [](\A s \in Sessions :
            (Built(s) /\ sample_order[s] # <<>>) =>
                /\ mode(s) = "Annotating" =>
                      /\ current_idx[s] = now - 1
                      /\ Len(sample_order[s]) - current_idx[s] > 0
                /\ mode(s) = "Reviewing" => Len(sample_order[s]) = now - 1)
    /\ \A s \in Sessions :
          (mode(s) = "Annotating" /\ sample_order[s] # <<>>)
              ~> (mode(s) = "Reviewing")
    /\ \A s \in Sessions :
          (mode(s) = "Reviewing") ~> (mode(s) = "Committed")

\* Committed after one save per sample of a queue of two.
C19_Witness ==
    /\ \E s \in Sessions : mode(s) = "Committed"
    /\ store.exists /\ store.complete
    /\ Len(store.recs) >= 2
    /\ \A i \in DOMAIN store.recs : store.recs[i].timestamp > 0
    /\ now = Len(store.recs) + 1

\* C12: when a session commits after another session of the same annotator
\* has committed, the file becomes the values of the buffer of the session
\* that commits last: what the file held and that buffer has no key for is
\* gone.  A session in review can always commit, whatever happened to the
\* file since its build.
C12_LastCommitWins ==
    [][\A s \in Sessions :
          /\ mode(s) = "Reviewing" => ENABLED CommitOk(s)
          /\ \A t \in Sessions \ {s} :
                (/\ mode(t) = "Committed"
                 /\ mode(s) = "Reviewing" /\ mode(s)' = "Committed") =>
                    /\ store' = FileOf(BufValues(annotations_buffer[s]))
                    /\ \A i \in DOMAIN store.recs :
                          store.recs[i].sample_id \notin BufKeys(annotations_buffer[s])
                              => store.recs[i].sample_id \notin AnnotatedIds(store'.recs)
      ]_vars

\* Both sessions were built from the same file; one has committed an answer
\* for a sample that the other, now in review and about to commit, has not
\* saved.
C12_Witness ==
    \E s \in Sessions : \E t \in Sessions \ {s} :
        /\ mode(t) = "Committed"
        /\ mode(s) = "Reviewing"
        /\ existing_annotations[s] = <<PriorRecord(0)>>
        /\ store.exists /\ store.complete
        /\ store.recs[1] = PriorRecord(0)
        /\ \E i \in DOMAIN store.recs :
              /\ store.recs[i].timestamp > 0
              /\ store.recs[i].sample_id \notin BufKeys(annotations_buffer[s])
        /\ \E i \in DOMAIN annotations_buffer[s] :
              annotations_buffer[s][i].timestamp > 0

\* C16: from the build to the clearing of the session, the queue, with its
\* order, and total_samples stay what the build made them, whatever happens
\* to the file; the initialization block runs in a session that is not
\* initialized and at no other time.
C16_BuildOnce ==
    [][\A s \in Sessions :
          /\ (Built(s) /\ Built(s)') =>
                /\ sample_order'[s] = sample_order[s]
                /\ total_samples'[s] = total_samples[s]
                /\ existing_annotations'[s] = existing_annotations[s]
          /\ Built(s) => ~ENABLED SessionInit(s)
          /\ SessionInit(s) => ~Built(s) /\ Built(s)'
      ]_vars

\* A built session whose queue is no longer what a build would make of the
\* file: the other session has committed an answer for a queue sample.
C16_Witness ==
    \E s \in Sessions :
        /\ Built(s)
        /\ Loadable(store)
        /\ sample_order[s] # <<>>
        /\ \E i \in DOMAIN sample_order[s] :
              sample_order[s][i].id \in AnnotatedIds(load_annotations(store))

\* what the form should offer for a sample: the entry of the buffer, or the
\* defaults
Hydrated(buf, sample, w) ==
    IF sample.id \in BufKeys(buf) THEN BufGet(buf, sample.id)[w]
                                  ELSE FieldDefault[w]

\* C13: whenever the form is on the page, each of its widgets offers the
\* value of buffer[sample.id] when the current sample has an entry, and
\* otherwise the default (yes, correct, 3, 3); nothing set for another
\* sample shows in it.
C13_FormHydration ==
    \A s \in Sessions :
        FormShown(s) =>
            \A w \in WidgetNames :
                form[s][w].shown =>
                    form[s][w].value =
                        Hydrated(annotations_buffer[s],
                                 sample_order[s][current_idx[s] + 1], w)

====
